---- MODULE Spec2Model ----
(***************************************************************************)
(* WHISPR signal threat assessment and live broadcast pipeline.            *)
(*                                                                         *)
(* Units.  Real numbers of the program are kept as scaled integers:        *)
(*   anomaly scores and rssi_mean in 1/100, rssi_variance and the parsed   *)
(*   signal percentage in 1/10, Bluetooth distances in 1/1000 m.           *)
(* Text is kept as TLA+ strings; substring tests, lower(), replace() and   *)
(* strip() are computed character by character.                            *)
(***************************************************************************)
EXTENDS Integers, Sequences, FiniteSets, TLC

(***************************************************************************)
(* Text helpers (Python str methods used by the program).                  *)
(***************************************************************************)

\* str.lower() on one character.
LowerTable ==
  [A |-> "a", B |-> "b", C |-> "c", D |-> "d", E |-> "e", F |-> "f", G |-> "g",
   H |-> "h", I |-> "i", J |-> "j", K |-> "k", L |-> "l", M |-> "m", N |-> "n",
   O |-> "o", P |-> "p", Q |-> "q", R |-> "r", S |-> "s", T |-> "t", U |-> "u",
   V |-> "v", W |-> "w", X |-> "x", Y |-> "y", Z |-> "z"]

LowerChar(c) == IF c \in DOMAIN LowerTable THEN LowerTable[c] ELSE c

\* Mutant of Lower: the text is compared as written (no .lower()).
LowerOmitted(s) == s

\* The characters of s from position i on, in lower case.
RECURSIVE LowerFrom(_, _)
LowerFrom(s, i) ==
  IF i > Len(s) THEN ""
  ELSE LowerChar(SubSeq(s, i, i)) \o LowerFrom(s, i + 1)

Lower(s) == LowerFrom(s, 1)

\* Python "sub in s".
Contains(sub, s) ==
  \E i \in 1..(Len(s) - Len(sub) + 1) : SubSeq(s, i, i + Len(sub) - 1) = sub

\* str.replace(ch, '') for a one-character ch.
RECURSIVE RemoveCharFrom(_, _, _)
RemoveCharFrom(s, ch, i) ==
  IF i > Len(s) THEN ""
  ELSE (IF SubSeq(s, i, i) = ch THEN "" ELSE SubSeq(s, i, i))
         \o RemoveCharFrom(s, ch, i + 1)

RemoveChar(s, ch) == RemoveCharFrom(s, ch, 1)

\* str.strip(): leading and trailing blanks removed.
\* The position of the first character that is not a blank, from i on.
RECURSIVE FirstNonBlank(_, _)
FirstNonBlank(s, i) ==
  IF i <= Len(s) /\ SubSeq(s, i, i) = " " THEN FirstNonBlank(s, i + 1) ELSE i

\* The position of the last character that is not a blank, from i down.
RECURSIVE LastNonBlank(_, _)
LastNonBlank(s, i) ==
  IF i >= 1 /\ SubSeq(s, i, i) = " " THEN LastNonBlank(s, i - 1) ELSE i

LStrip(s) == SubSeq(s, FirstNonBlank(s, 1), Len(s))

RStrip(s) == SubSeq(s, 1, LastNonBlank(s, Len(s)))

Strip(s) == RStrip(LStrip(s))

DigitTable ==
  ("0" :> 0) @@ ("1" :> 1) @@ ("2" :> 2) @@ ("3" :> 3) @@ ("4" :> 4) @@
  ("5" :> 5) @@ ("6" :> 6) @@ ("7" :> 7) @@ ("8" :> 8) @@ ("9" :> 9)

IsDigits(s) ==
  /\ Len(s) > 0
  /\ \A i \in 1..Len(s) : SubSeq(s, i, i) \in DOMAIN DigitTable

\* The value of the first n digits of s.
RECURSIVE DigitsValueTo(_, _)
DigitsValueTo(s, n) ==
  IF n = 0 THEN 0
  ELSE 10 * DigitsValueTo(s, n - 1) + DigitTable[SubSeq(s, n, n)]

DigitsValue(s) == DigitsValueTo(s, Len(s))

\* float(s) for the decimal forms "ddd" and "ddd.d", blanks around them
\* allowed: [ok |-> TRUE, tenths |-> value * 10], and ok = FALSE where float()
\* raises ValueError.
ParseFloat(str) ==
  LET s   == Strip(str)
      dot == IF Len(s) >= 2 /\ SubSeq(s, Len(s) - 1, Len(s) - 1) = "." THEN TRUE ELSE FALSE
  IN  IF IsDigits(s) THEN [ok |-> TRUE, tenths |-> 10 * DigitsValue(s)]
      ELSE IF /\ Len(s) >= 3 /\ dot
              /\ IsDigits(SubSeq(s, 1, Len(s) - 2))
              /\ IsDigits(SubSeq(s, Len(s), Len(s)))
           THEN [ok |-> TRUE,
                 tenths |-> 10 * DigitsValue(SubSeq(s, 1, Len(s) - 2))
                              + DigitsValue(SubSeq(s, Len(s), Len(s)))]
           ELSE [ok |-> FALSE, tenths |-> 0]

\* dict.get(key, default)
Get(d, key, default) == IF key \in DOMAIN d THEN d[key] ELSE default

(***************************************************************************)
(* Configuration (app.py section 1, whispr_live_prediction.py).            *)
(***************************************************************************)

\* app.py THREAT_THRESHOLD = -0.01, in 1/100.
THREAT_THRESHOLD == -1

\* whispr_live_prediction.py THREAT_THRESHOLD = -0.1 (local of
\* assess_live_signal), in 1/100.
LIVE_THREAT_THRESHOLD == -10

MAX_FILE_READ_ATTEMPTS == 5

\* The sentinel score 999.0, in 1/100.
ERROR_SCORE == 99900

(***************************************************************************)
(* Loading the three artifacts at module import.  failAt = 0: every        *)
(* joblib.load succeeds; failAt = k: the k-th load (SCALER, PCA, MODEL in  *)
(* that order) raises exc.  An artifact is TRUE when loaded, FALSE when    *)
(* the name is still None.                                                 *)
(***************************************************************************)

\* app.py: FileNotFoundError exits the process, any other exception is
\* printed and the names assigned so far keep their objects.
LoadArtifacts(failAt, exc) ==
  IF failAt # 0 /\ exc = "FileNotFoundError"
  THEN [up |-> FALSE, SCALER |-> FALSE, PCA |-> FALSE, MODEL |-> FALSE]
  ELSE [up |-> TRUE,
        SCALER |-> (failAt = 0 \/ failAt > 1),
        PCA    |-> (failAt = 0 \/ failAt > 2),
        MODEL  |-> (failAt = 0)]

\* whispr_live_prediction.py: FileNotFoundError sets all three to None, any
\* other exception is not handled and the import fails.
LoadArtifactsLive(failAt, exc) ==
  IF failAt = 0
  THEN [up |-> TRUE, SCALER |-> TRUE, PCA |-> TRUE, MODEL |-> TRUE]
  ELSE [up |-> (exc = "FileNotFoundError"),
        SCALER |-> FALSE, PCA |-> FALSE, MODEL |-> FALSE]

(***************************************************************************)
(* Scoring.  The fitted scaler, PCA and one-class model are opaque: what   *)
(* they do on a call is the input pipe = [raises, score], the exception    *)
(* flag of transform/decision_function and the anomaly score returned.     *)
(***************************************************************************)

\* app.py assess_signal
assess_signal(art, pipe) ==
  IF ~art.MODEL
  THEN [risk_level |-> "PROCESSING_ERROR", score |-> ERROR_SCORE]
  ELSE IF ~art.SCALER \/ ~art.PCA \/ pipe.raises
       THEN [risk_level |-> "PROCESSING_ERROR", score |-> ERROR_SCORE]
       ELSE [risk_level |-> IF pipe.score < THREAT_THRESHOLD THEN "THREAT" ELSE "BENIGN",
             score |-> pipe.score]

\* whispr_live_prediction.py assess_live_signal; [exception |-> ...] when the
\* call raises to its caller.
assess_live_signal(art, pipe) ==
  IF ~art.MODEL
  THEN [risk_level |-> "ERROR", score |-> ERROR_SCORE]
  ELSE IF ~art.SCALER \/ ~art.PCA \/ pipe.raises
       THEN [exception |-> "Exception"]
       ELSE [risk_level |-> IF pipe.score < LIVE_THREAT_THRESHOLD THEN "THREAT" ELSE "BENIGN",
             score |-> pipe.score]

Raised(r) == "exception" \in DOMAIN r

(***************************************************************************)
(* Wi-Fi processing (app.py section 4).                                    *)
(***************************************************************************)

public_keywords == <<"guest", "free", "public", "cafe", "airport", "hotel">>

\* The locals of process_wifi_data computed from the first record, lines
\* 99-141.
WifiLocals(connected_network) ==
  LET security_value     == Lower(Get(connected_network, "Authentication", "N/A"))
      signal_percent_str == Strip(RemoveChar(Get(connected_network, "Signal (%)", "70%"), "%"))
      ssid_value         == Lower(Get(connected_network, "SSID", ""))
      parsed             == ParseFloat(signal_percent_str)
      signal_percent     == IF parsed.ok THEN parsed.tenths ELSE 700
      is_secure          == \/ Contains("wpa", security_value)
                            \/ Contains("wpa2", security_value)
                            \/ Contains("wpa3", security_value)
      is_open            == ~is_secure
      is_public_open     == is_open /\ \E k \in 1..Len(public_keywords) :
                                          Contains(public_keywords[k], ssid_value)
  IN  [signal_percent |-> signal_percent,
       is_secure      |-> is_secure,
       is_public_open |-> is_public_open,
       rssi_variance  |-> IF is_open THEN (IF is_public_open THEN 50 ELSE 250) ELSE 15,
       probe_rate     |-> IF is_open THEN (IF is_public_open THEN 30 ELSE 150) ELSE 10,
       oui_trust      |-> IF is_open THEN (IF is_public_open THEN 7 ELSE 1) ELSE 9,
       anomaly_flag   |-> IF is_open /\ ~is_public_open THEN 1 ELSE 0,
       threat_tier    |-> IF is_open THEN (IF is_public_open THEN "MILD" ELSE "HIGH") ELSE "LOW",
       \* -100 + signal_percent * 0.7, in 1/100
       rssi_mean      |-> -10000 + signal_percent * 7]

\* raw_features_to_score, lines 143-149:
\* <<rssi_mean (1/100), rssi_variance (1/10), probe_rate, oui_trust, anomaly_flag>>
raw_features_to_score(connected_network) ==
  LET l == WifiLocals(connected_network)
  IN  <<l.rssi_mean, l.rssi_variance, l.probe_rate, l.oui_trust, l.anomaly_flag>>

\* Mutant of SentinelFeatures: one sentinel value short.
SentinelFeaturesFour == <<-100, -10, -1, -1>>

\* [-1.0] * 5 in the units of raw_features_to_score
SentinelFeatures == <<-100, -10, -1, -1, -1>>

\* Mutant of ReconcileTier: the verdict only raises a tier that is HIGH.
ReconcileTierFromHigh(risk_level, threat_tier) ==
  IF risk_level = "THREAT" /\ threat_tier = "HIGH" THEN "CRITICAL" ELSE threat_tier

\* The tier after the model's verdict, lines 153-155.
ReconcileTier(risk_level, threat_tier) ==
  IF risk_level = "THREAT" THEN "CRITICAL" ELSE threat_tier

\* app.py process_wifi_data.  scored = TRUE in the result records that
\* assess_signal was called (not a field of the program's report).
process_wifi_data(full_network_list, art, pipe) ==
  IF Len(full_network_list) = 0
  THEN [result |-> "NO_NETWORKS_FOUND", score |-> 0,
        raw_features |-> SentinelFeatures, ssid |-> "N/A",
        networks |-> <<>>, threat_tier |-> "LOW", scored |-> FALSE]
  ELSE LET connected_network == full_network_list[1]
           l      == WifiLocals(connected_network)
           scored == assess_signal(art, pipe)
       IN  IF "SSID" \notin DOMAIN connected_network
           THEN [exception |-> "KeyError"]   \* connected_network['SSID'], line 157
           ELSE [result |-> scored.risk_level, score |-> scored.score,
                 raw_features |-> raw_features_to_score(connected_network),
                 ssid |-> connected_network["SSID"],
                 networks |-> full_network_list,
                 threat_tier |-> ReconcileTier(scored.risk_level, l.threat_tier),
                 scored |-> TRUE]

(***************************************************************************)
(* Bluetooth threat model (bluetooth_detection_model.py).                  *)
(***************************************************************************)

RSSI_AT_1M == -59

MAJOR_CLASS_AUDIO_VIDEO == 4

MAJOR_CLASS_PHONE == 2

\* 10 ** (k / (10.0 * PATH_LOSS_EXPONENT)) for k = RSSI_AT_1M - rssi = 1..48,
\* PATH_LOSS_EXPONENT = 2.8, in 1/1000 m (rounded down).
Pow10Milli ==
  <<1085, 1178, 1279, 1389, 1508, 1637, 1778, 1930, 2096, 2275, 2470, 2682,
    2912, 3162, 3433, 3727, 4047, 4393, 4770, 5179, 5623, 6105, 6628, 7196,
    7813, 8483, 9210, 10000, 10857, 11787, 12798, 13894, 15085, 16378, 17782,
    19306, 20961, 22758, 24709, 26826, 29126, 31622, 34333, 37275, 40470,
    43939, 47705, 51794>>

\* calculate_distance, in 1/1000 m
calculate_distance(rssi) ==
  IF rssi >= RSSI_AT_1M THEN 100 ELSE Pow10Milli[RSSI_AT_1M - rssi]

\* round(distance, 2), in 1/100 m
Round2(distance) == (distance + 5) \div 10

\* Mutant of get_major_class_from_name: "speaker" is not a keyword.
get_major_class_without_speaker(device_name) ==
  IF Len(device_name) = 0 THEN 0
  ELSE LET name_lower == Lower(device_name)
       IN  IF Contains("mic", name_lower) \/ Contains("headset", name_lower)
           THEN MAJOR_CLASS_AUDIO_VIDEO
           ELSE MAJOR_CLASS_PHONE

get_major_class_from_name(device_name) ==
  IF Len(device_name) = 0 THEN 0
  ELSE LET name_lower == Lower(device_name)
       IN  IF \/ Contains("mic", name_lower)
              \/ Contains("headset", name_lower)
              \/ Contains("speaker", name_lower)
           THEN MAJOR_CLASS_AUDIO_VIDEO
           ELSE MAJOR_CLASS_PHONE

\* assess_bluetooth_threat; description is the message's first words.
assess_bluetooth_threat(rssi, device_class_major, device_name) ==
  LET distance          == calculate_distance(rssi)
      device_name_lower == Lower(device_name)
      level ==
        IF distance < 500
        THEN IF \/ device_class_major = MAJOR_CLASS_AUDIO_VIDEO
                \/ Contains("sniffer", device_name_lower)
                \/ Contains("mic", device_name_lower)
             THEN <<"CRITICAL", "Proximate Audio/Video, Sniffer, or Mic detected">>
             ELSE <<"HIGH", "Unusually close device">>
        ELSE IF distance < 3000
             THEN IF \/ Contains("mic", device_name_lower)
                     \/ device_class_major = MAJOR_CLASS_AUDIO_VIDEO
                  THEN <<"HIGH", "Audio/Mic device detected within room">>
                  ELSE <<"LOW", "Normal proximity detection">>
             ELSE <<"LOW", "Safe distance">>
  IN  [status           |-> level[1],
       distance_m       |-> Round2(distance),
       rssi_dbm         |-> rssi,
       description      |-> level[2],
       device_type_code |-> device_class_major,
       device_name      |-> device_name]

\* perform_scan_and_assess, lines 119-120: the class comes from the name.
assess_device(rssi, name) ==
  assess_bluetooth_threat(rssi, get_major_class_from_name(name), name)

\* 10 ** power is a double: from RSSI_AT_1M - rssi = 8632 on (power above
\* 308.25) the result is larger than the largest double and Python raises
\* OverflowError.
OVERFLOW_DROP == 8632

\* A call of calculate_distance as its caller sees it: the distance returned
\* (1/1000 m), or the exception that leaves the function.
calculate_distance_call(rssi) ==
  IF rssi < RSSI_AT_1M /\ RSSI_AT_1M - rssi >= OVERFLOW_DROP
  THEN [exception |-> "OverflowError"]
  ELSE [distance |-> calculate_distance(rssi)]

(***************************************************************************)
(* The Bluetooth endpoint (app.py section 6, bluetooth_scan_endpoint).     *)
(* distance_m is kept in 1/100 m.                                          *)
(***************************************************************************)

\* app.py BT_PROXIMITY_LIMIT = 10.0, in 1/100 m.
BT_PROXIMITY_LIMIT == 1000

\* Python truth of what get_latest_data(BT_DATA_FILE) returns: None and {}
\* are false.
TruthyDict(v) == ~v.isNone /\ DOMAIN v.data # {}

\* Mutant of within_proximity: a device without distance_m counts as at 0 m.
within_proximity_default_zero(device) ==
  Get(device, "distance_m", 0) <= BT_PROXIMITY_LIMIT

\* The condition of the list comprehension, line 254.
within_proximity(device) ==
  Get(device, "distance_m", BT_PROXIMITY_LIMIT + 100) <= BT_PROXIMITY_LIMIT

\* Mutant of max_threat_loop: no break, the last CRITICAL or HIGH device
\* sets the result.
RECURSIVE max_threat_last_wins(_, _, _)
max_threat_last_wins(filtered_devices, i, max_threat) ==
  IF i > Len(filtered_devices) THEN max_threat
  ELSE max_threat_last_wins(filtered_devices, i + 1,
         IF filtered_devices[i]["status"] \in {"CRITICAL", "HIGH"}
         THEN filtered_devices[i]["status"] ELSE max_threat)

\* The for loop of lines 259-264 from device number i on.
RECURSIVE max_threat_loop(_, _, _)
max_threat_loop(filtered_devices, i, max_threat) ==
  IF i > Len(filtered_devices) THEN max_threat
  ELSE IF filtered_devices[i]["status"] = "CRITICAL" THEN "CRITICAL"
       ELSE max_threat_loop(filtered_devices, i + 1,
              IF filtered_devices[i]["status"] = "HIGH" THEN "HIGH" ELSE max_threat)

\* bluetooth_scan_endpoint on bt_raw_data, what get_latest_data(BT_DATA_FILE)
\* returned.  scan_time "now" stands for datetime.now().
bluetooth_scan_endpoint(bt_raw_data) ==
  IF ~TruthyDict(bt_raw_data)
  THEN [metadata  |-> [scan_time |-> "now", iteration |-> 0],
        bluetooth |-> [devices_detected |-> 0, devices |-> <<>>, max_threat |-> "LOW"]]
  ELSE LET filtered_devices ==
             SelectSeq(Get(bt_raw_data.data, "devices", <<>>), within_proximity)
       IN  [metadata  |-> [scan_time |-> Get(bt_raw_data.data, "scan_time", "now"),
                           iteration |-> Get(bt_raw_data.data, "iteration", 1)],
            bluetooth |-> [devices_detected |-> Len(filtered_devices),
                           devices          |-> filtered_devices,
                           max_threat       |-> max_threat_loop(filtered_devices, 1, "LOW")]]

(***************************************************************************)
(* Inputs of the function-level specification.                             *)
(***************************************************************************)

\* Anomaly scores range over -MaxScore..MaxScore (1/100).
MaxScore == 12

\* Network lists hold at most MaxNetworks records.
MaxNetworks == 2

\* RSSI readings range over RSSI_AT_1M - MaxRssiDrop .. RSSI_AT_1M + MaxRssiRise.
MaxRssiDrop == 40

MaxRssiRise == 20

Scores == (0 - MaxScore)..MaxScore

Pipes == {[raises |-> TRUE, score |-> 0]} \cup {[raises |-> FALSE, score |-> sc] : sc \in Scores}

LoadFailures == {<<0, "none">>} \cup ((1..3) \X {"FileNotFoundError", "Exception"})

AuthValues == {"WPA2-Personal", "wpa3-sae", "Open", "WEP"}

SsidValues == {"Free Airport WiFi", "xyz123", "HomeNet", "CAFE_Guest"}

SignalValues == {"80%", "50%", "90%", " 75 % ", "12.5%", "n/a"}

\* A record may lack any of the three keys.
OptField(key, values) == {<<>>} \cup {key :> v : v \in values}

NetworkRecords ==
  {a @@ b @@ c : a \in OptField("Authentication", AuthValues),
                 b \in OptField("SSID", SsidValues),
                 c \in OptField("Signal (%)", SignalValues)}

OtherNetwork == [SSID |-> "Neighbour", Authentication |-> "WPA2-Personal"]

RECURSIVE Fill(_)
Fill(n) == IF n = 0 THEN <<>> ELSE <<OtherNetwork>> \o Fill(n - 1)

NetLists ==
  {<<>>} \cup {<<r>> \o Fill(n) : r \in NetworkRecords, n \in 0..(MaxNetworks - 1)}

RssiValues == (RSSI_AT_1M - MaxRssiDrop)..(RSSI_AT_1M + MaxRssiRise)

DeviceNames ==
  {"", "Wireless Mic", "SNIFFER-01", "JBL Speaker", "BT Headset", "iPhone",
   "Microwave", "AA:BB:CC:DD"}

\* Stored device lists hold at most MaxDevices devices.
MaxDevices == 3

\* distance_m of a stored device (1/100 m): close, at the limit, just beyond
\* it, far.
StoredDistances == {45, BT_PROXIMITY_LIMIT, BT_PROXIMITY_LIMIT + 1, 2683}

\* A stored device: its status, and its distance_m unless the key is missing.
StoredDevices ==
  {[status |-> st] @@ d : st \in {"LOW", "HIGH", "CRITICAL"},
                          d \in OptField("distance_m", StoredDistances)}

RECURSIVE DeviceLists(_)
DeviceLists(n) ==
  IF n = 0 THEN {<<>>}
  ELSE DeviceLists(n - 1) \cup
       {<<d>> \o l : d \in StoredDevices, l \in {x \in DeviceLists(n - 1) : Len(x) = n - 1}}

(***************************************************************************)
(* The live server (app.py sections 3, 5, 6): the scan file written by the *)
(* bridge, the /score_signal handlers and the file_monitor threads.        *)
(***************************************************************************)

\* The bridge rewrites the scan file at most MaxWrites times.
MaxWrites == 2

\* /score_signal requests in flight at once; a handler starts at most one
\* thread, so as many threads.
MaxHandlers == 2

Handlers == 1..MaxHandlers

\* The reports of one write are counted up to MaxEmitCount ("that many or
\* more").
MaxEmitCount == 2

\* What scan_results.json can hold, as text.
FileTexts == {"[", "[]", "[home]", "[nossid]"}

\* json.load of the text: ok = FALSE is json.JSONDecodeError.
json_load(text) ==
  CASE text = "[]"       -> [ok |-> TRUE, data |-> <<>>]
    [] text = "[home]"   -> [ok |-> TRUE,
                             data |-> <<[SSID |-> "HomeNet", Authentication |-> "WPA2-Personal"]
                                          @@ ("Signal (%)" :> "80%"), OtherNetwork>>]
    [] text = "[nossid]" -> [ok |-> TRUE, data |-> <<[Authentication |-> "Open"]>>]
    [] OTHER             -> [ok |-> FALSE, data |-> <<>>]

\* Python values a read returns: None, or the parsed list.
NoneValue == [isNone |-> TRUE, data |-> <<>>, src |-> 0]

\* src (not program state): the marker of the write the data was read from.
SomeValue(d, m) == [isNone |-> FALSE, data |-> d, src |-> m]

\* Mutant of Truthy: the test is "is not None".
TruthyNotNone(v) == ~v.isNone

\* Python truth of a read result: None and [] are false.
Truthy(v) == ~v.isNone /\ Len(v.data) > 0

\* What get_latest_data(BT_DATA_FILE) returns: None (no file, or no readable
\* JSON after the retries), an empty object, an object without 'devices', or
\* the object main_loop of bluetooth_detection_model.py writes.
StoredScans ==
  {NoneValue, SomeValue(<<>>, 0), SomeValue([scan_time |-> "12:00:00"], 0)}
  \cup {SomeValue([scan_time |-> "12:00:00", iteration |-> 7,
                   devices_detected |-> Len(l), devices |-> l], 0) :
          l \in DeviceLists(MaxDevices)}

\* What the loaded pipeline can return on the feature vector of a scan; it
\* is a function of the vector, so the same on every call of one run.
ServerPipes ==
  {[raises |-> FALSE, score |-> 0 - MaxScore],
   [raises |-> FALSE, score |-> MaxScore]}

\* One pass of the loop body of get_latest_data on file f; io is what the
\* operating system does to open/read: "ok", "IOError", or another exception.
\* done = FALSE: the pass slept 0.1 s and the loop goes on.
get_latest_data_pass(f, io) ==
  IF ~f.exists
  THEN [done |-> TRUE, value |-> NoneValue]
  ELSE IF io = "IOError" \/ (io = "ok" /\ ~json_load(f.text).ok)
       THEN [done |-> FALSE, value |-> NoneValue]
       ELSE IF io # "ok"
            THEN [done |-> TRUE, value |-> NoneValue]
            ELSE [done |-> TRUE, value |-> SomeValue(json_load(f.text).data, f.mtime)]

\* The loop of get_latest_data from pass number attempt on: the first fails
\* passes meet an IOError, the others meet last ("ok" or "Exception").
\* passes counts the passes made.
RECURSIVE get_latest_data_from(_, _, _, _)
get_latest_data_from(f, attempt, fails, last) ==
  IF attempt >= MAX_FILE_READ_ATTEMPTS
  THEN [value |-> NoneValue, passes |-> attempt]
  ELSE LET p == get_latest_data_pass(f, IF attempt < fails THEN "IOError" ELSE last)
       IN  IF p.done THEN [value |-> p.value, passes |-> attempt + 1]
           ELSE get_latest_data_from(f, attempt + 1, fails, last)

\* get_latest_data(WIFI_DATA_FILE) = get_latest_scan_data().  The file is
\* taken as it is at the call; a rewrite between two passes gives what a
\* call made after the rewrite gives.
get_latest_data(f, fails, last) == get_latest_data_from(f, 0, fails, last)

\* The ways the operating system can treat one call: no IOError, an IOError
\* on every pass but the last, an IOError on every pass.
IoFails == {0, MAX_FILE_READ_ATTEMPTS - 1, MAX_FILE_READ_ATTEMPTS}

IoLast == {"ok", "Exception"}

VARIABLES
  fin,                 \* function level: the input
  fout,                \* function level: the results of the calls made on it
  file,                \* scan_results.json: [exists, mtime, text]
  last_modified_time,  \* app.py global
  stop_event,          \* app.py global threading.Event
  artifacts,           \* SCALER, PCA, MODEL as loaded at import
  pipeline,            \* what the loaded pipeline returns (fixed at import)
  req,                 \* the /score_signal handlers
  mon,                 \* the file_monitor threads, mon[h] started by handler h
  emitted,             \* emitted[m]: 'new_wifi_data' reports whose data was read from write m
  emitted_after_stop,  \* reports given to socketio.emit since stop_event was set
  last_report          \* the last report given to socketio.emit

vars == <<fin, fout, file, last_modified_time, stop_event, artifacts, pipeline, req, mon,
          emitted, emitted_after_stop, last_report>>

fnVars == <<fin, fout>>

srvVars == <<file, last_modified_time, stop_event, artifacts, pipeline, req, mon, emitted,
             emitted_after_stop, last_report>>

NoReport == [result |-> "none"]

IdleHandler == [pc |-> "idle", wifi_raw |-> NoneValue, wifi_processed |-> NoReport]

\* delay and empty describe the tick that has just ended (empty is not
\* program state): the time.sleep argument, and that the tick found a newer
\* marker and fetched None or an empty list.
DeadThread == [pc |-> "off", current_modified_time |-> 0,
               full_network_list |-> NoneValue, delay |-> 0, empty |-> FALSE]

InitServer ==
  /\ file = [exists |-> FALSE, mtime |-> 0, text |-> "["]
  /\ last_modified_time = 0
  /\ stop_event = FALSE
  /\ artifacts = LoadArtifacts(0, "none")
  /\ pipeline \in ServerPipes
  /\ req = [h \in Handlers |-> IdleHandler]
  /\ mon = [h \in Handlers |-> DeadThread]
  /\ emitted = [m \in 1..MaxWrites |-> 0]
  /\ emitted_after_stop = 0
  /\ last_report = NoReport

(***************************************************************************)
(* The bridge (local_data_bridge.py write_to_json) and process shutdown.   *)
(***************************************************************************)

\* A rewrite of scan_results.json; the marker moves forward.
BridgeWrite ==
  /\ file.mtime < MaxWrites
  /\ \E text \in FileTexts :
       file' = [exists |-> TRUE, mtime |-> file.mtime + 1, text |-> text]
  /\ UNCHANGED <<last_modified_time, stop_event, artifacts, pipeline, req, mon, emitted, emitted_after_stop,
                 last_report, fnVars>>

\* stop_event.set()
StopSignal ==
  /\ ~stop_event
  /\ stop_event' = TRUE
  /\ UNCHANGED <<file, last_modified_time, artifacts, pipeline, req, mon, emitted, emitted_after_stop,
                 last_report, fnVars>>

(***************************************************************************)
(* score_signal_endpoint, one action per step of handler h.                *)
(***************************************************************************)

Alive(w) == mon[w].pc # "off"

\* any(t.name == 'file_monitor' for t in threading.enumerate())
MonitorRunning == \E w \in Handlers : Alive(w)

\* lines 216-217: the request arrives, the scan is read and processed.  An
\* exception of process_wifi_data ends the request (HTTP 500).
HandlerScan(h) ==
  /\ req[h].pc = "idle"
  /\ \E fails \in IoFails, last \in IoLast :
       LET wifi_raw == get_latest_data(file, fails, last).value
           wifi_processed ==
             IF Truthy(wifi_raw)
             THEN process_wifi_data(wifi_raw.data, artifacts, pipeline)
             ELSE process_wifi_data(<<>>, artifacts, pipeline)
       IN  req' = [req EXCEPT ![h] =
                     IF Raised(wifi_processed) THEN IdleHandler
                     ELSE [pc |-> "check", wifi_raw |-> wifi_raw,
                           wifi_processed |-> wifi_processed]]
  /\ UNCHANGED <<file, last_modified_time, stop_event, artifacts, pipeline, mon, emitted, emitted_after_stop,
                 last_report, fnVars>>

\* line 222; with a monitor running the handler returns (line 234).  The
\* response is settled since line 217 and is kept in the model up to here.
HandlerCheck(h) ==
  /\ req[h].pc = "check"
  /\ req' = [req EXCEPT ![h] = IF MonitorRunning THEN IdleHandler
                               ELSE [IdleHandler EXCEPT !.pc = "start"]]
  /\ UNCHANGED <<file, last_modified_time, stop_event, artifacts, pipeline, mon, emitted, emitted_after_stop,
                 last_report, fnVars>>

\* lines 224-229 and the return of line 234.  The new thread touches nothing
\* before its first step, so the marker is set and the thread started in one
\* step.
HandlerStart(h) ==
  /\ req[h].pc = "start"
  /\ last_modified_time' = IF file.exists THEN file.mtime ELSE last_modified_time
  /\ mon' = [mon EXCEPT ![h] = [DeadThread EXCEPT !.pc = "loop"]]
  /\ req' = [req EXCEPT ![h] = IdleHandler]
  /\ UNCHANGED <<file, stop_event, artifacts, pipeline, emitted, emitted_after_stop, last_report, fnVars>>

(***************************************************************************)
(* check_for_file_updates, one action per step of thread w.                *)
(***************************************************************************)

\* The tick ends in time.sleep(delay), lines 195, 199 and 202.  The locals
\* are dead from here on (each is assigned again before its next use).
ToSleep(m, delay, empty) ==
  [DeadThread EXCEPT !.pc = "loop", !.delay = delay, !.empty = empty]

\* Mutant of OnException: no except clause, the exception ends the thread.
OnExceptionUncaught(m) == DeadThread

\* The except clauses, lines 197-202: FileNotFoundError and any other
\* Exception raised in the try block end the tick in time.sleep(5).
OnException(m) == ToSleep(m, 5, FALSE)

\* Mutant of MarkerIsNewer: the comparison is >=.
MarkerNotOlder(current_modified_time, last) == current_modified_time >= last

\* The condition of line 180.
MarkerIsNewer(current_modified_time, last) == current_modified_time > last

\* time.sleep returns (delay > 0), and line 175
MonitorLoop(w) ==
  /\ mon[w].pc = "loop"
  /\ mon' = [mon EXCEPT ![w] = IF stop_event THEN DeadThread
                               ELSE [DeadThread EXCEPT !.pc = "getmtime"]]
  /\ UNCHANGED <<file, last_modified_time, stop_event, artifacts, pipeline, req, emitted, emitted_after_stop,
                 last_report, fnVars>>

\* line 177; FileNotFoundError goes to line 199, another OSError of
\* os.path.getmtime (osError) to line 200
MonitorGetmtime(w) ==
  /\ mon[w].pc = "getmtime"
  /\ \E osError \in BOOLEAN :
       mon' = [mon EXCEPT ![w] =
                 IF file.exists /\ ~osError
                 THEN [@ EXCEPT !.current_modified_time = file.mtime, !.pc = "compare"]
                 ELSE OnException(@)]
  /\ UNCHANGED <<file, last_modified_time, stop_event, artifacts, pipeline, req, emitted, emitted_after_stop,
                 last_report, fnVars>>

\* line 180
MonitorCompare(w) ==
  /\ mon[w].pc = "compare"
  /\ mon' = [mon EXCEPT ![w] =
               IF MarkerIsNewer(@.current_modified_time, last_modified_time)
               THEN [@ EXCEPT !.pc = "read"]
               ELSE ToSleep(@, 1, FALSE)]
  /\ UNCHANGED <<file, last_modified_time, stop_event, artifacts, pipeline, req, emitted, emitted_after_stop,
                 last_report, fnVars>>

\* lines 184-185
MonitorRead(w) ==
  /\ mon[w].pc = "read"
  /\ \E fails \in IoFails, last \in IoLast :
       LET full_network_list == get_latest_data(file, fails, last).value
       IN  mon' = [mon EXCEPT ![w] =
                     IF Truthy(full_network_list)
                     THEN [@ EXCEPT !.full_network_list = full_network_list,
                                    !.pc = "emit"]
                     ELSE ToSleep(@, 1, TRUE)]
  /\ UNCHANGED <<file, last_modified_time, stop_event, artifacts, pipeline, req, emitted, emitted_after_stop,
                 last_report, fnVars>>

\* lines 187-190; an exception of process_wifi_data or of socketio.emit goes
\* to line 200
MonitorEmit(w) ==
  /\ mon[w].pc = "emit"
  /\ \E emitRaises \in BOOLEAN :
       LET report_data == process_wifi_data(mon[w].full_network_list.data, artifacts,
                                            pipeline)
           src         == mon[w].full_network_list.src
       IN  IF Raised(report_data) \/ emitRaises
           THEN /\ mon' = [mon EXCEPT ![w] = OnException(@)]
                /\ UNCHANGED <<emitted, emitted_after_stop, last_report>>
           ELSE /\ mon' = [mon EXCEPT ![w].pc = "update"]
                /\ emitted' = [emitted EXCEPT ![src] =
                                 IF @ < MaxEmitCount THEN @ + 1 ELSE @]
                /\ emitted_after_stop' =
                     IF stop_event /\ emitted_after_stop < MaxEmitCount
                     THEN emitted_after_stop + 1 ELSE emitted_after_stop
                /\ last_report' = report_data
  /\ UNCHANGED <<file, last_modified_time, stop_event, artifacts, pipeline, req, fnVars>>

\* line 193, then line 195
MonitorUpdate(w) ==
  /\ mon[w].pc = "update"
  /\ last_modified_time' = mon[w].current_modified_time
  /\ mon' = [mon EXCEPT ![w] = ToSleep(@, 1, FALSE)]
  /\ UNCHANGED <<file, stop_event, artifacts, pipeline, req, emitted, emitted_after_stop, last_report, fnVars>>

(***************************************************************************)
(* Function level: an input is drawn, and each function that takes it is   *)
(* called on it once.                                                      *)
(***************************************************************************)

NotCalled == [called |-> FALSE]

Returned(v) == [called |-> TRUE, value |-> v]

NoResults == [assess_signal |-> NotCalled, assess_live_signal |-> NotCalled,
              process_wifi_data |-> NotCalled, assess_bluetooth_threat |-> NotCalled,
              bluetooth_scan_endpoint |-> NotCalled, calculate_distance |-> NotCalled]

\* The scoring functions: how the import went, and what the pipeline does.
ScoreInputs ==
  {[kind |-> "score", failAt |-> lf[1], exc |-> lf[2], pipe |-> pipe] :
     lf \in LoadFailures, pipe \in Pipes}

\* process_wifi_data in a server that is up: all artifacts loaded and any
\* behaviour of the pipeline, or the load of MODEL failed.
WifiInputs ==
  {[kind |-> "wifi", nets |-> nets, failAt |-> 0, exc |-> "none", pipe |-> pipe] :
     nets \in NetLists, pipe \in Pipes}
  \cup
  {[kind |-> "wifi", nets |-> nets, failAt |-> 3, exc |-> "Exception",
    pipe |-> [raises |-> FALSE, score |-> 0 - MaxScore]] : nets \in NetLists}

BluetoothInputs ==
  {[kind |-> "bt", rssi |-> rssi, name |-> name] :
     rssi \in RssiValues, name \in DeviceNames}

\* GET /bluetooth_scan with a stored scan.
ScanInputs == {[kind |-> "btscan", bt_raw_data |-> v] : v \in StoredScans}

\* calculate_distance on the readings of RssiValues and on the first reading
\* at which 10 ** power overflows.
DistanceInputs ==
  {[kind |-> "distance", rssi |-> rssi] :
     rssi \in RssiValues \cup {RSSI_AT_1M - OVERFLOW_DROP}}

InitFn ==
  /\ fin \in ScoreInputs \cup WifiInputs \cup BluetoothInputs \cup ScanInputs
            \cup DistanceInputs
  /\ fout = NoResults
  /\ InitServer
  /\ pipeline = [raises |-> FALSE, score |-> MaxScore]

\* app.py as imported with fin's load failure, then assess_signal
CallAssessSignal ==
  /\ fin.kind = "score"
  /\ ~fout.assess_signal.called
  /\ LoadArtifacts(fin.failAt, fin.exc).up
  /\ fout' = [fout EXCEPT !.assess_signal =
                 Returned(assess_signal(LoadArtifacts(fin.failAt, fin.exc), fin.pipe))]
  /\ UNCHANGED <<fin, srvVars>>

\* whispr_live_prediction.py as imported with fin's load failure, then
\* assess_live_signal
CallAssessLiveSignal ==
  /\ fin.kind = "score"
  /\ ~fout.assess_live_signal.called
  /\ LoadArtifactsLive(fin.failAt, fin.exc).up
  /\ fout' = [fout EXCEPT !.assess_live_signal =
                 Returned(assess_live_signal(LoadArtifactsLive(fin.failAt, fin.exc),
                                             fin.pipe))]
  /\ UNCHANGED <<fin, srvVars>>

CallProcessWifiData ==
  /\ fin.kind = "wifi"
  /\ ~fout.process_wifi_data.called
  /\ fout' = [fout EXCEPT !.process_wifi_data =
                 Returned(process_wifi_data(fin.nets, LoadArtifacts(fin.failAt, fin.exc),
                                            fin.pipe))]
  /\ UNCHANGED <<fin, srvVars>>

\* perform_scan_and_assess on one detected device
CallAssessBluetooth ==
  /\ fin.kind = "bt"
  /\ ~fout.assess_bluetooth_threat.called
  /\ fout' = [fout EXCEPT !.assess_bluetooth_threat =
                 Returned(assess_device(fin.rssi, fin.name))]
  /\ UNCHANGED <<fin, srvVars>>

CallBluetoothScanEndpoint ==
  /\ fin.kind = "btscan"
  /\ ~fout.bluetooth_scan_endpoint.called
  /\ fout' = [fout EXCEPT !.bluetooth_scan_endpoint =
                 Returned(bluetooth_scan_endpoint(fin.bt_raw_data))]
  /\ UNCHANGED <<fin, srvVars>>

CallCalculateDistance ==
  /\ fin.kind = "distance"
  /\ ~fout.calculate_distance.called
  /\ fout' = [fout EXCEPT !.calculate_distance =
                 Returned(calculate_distance_call(fin.rssi))]
  /\ UNCHANGED <<fin, srvVars>>

NextFn ==
  \/ CallAssessSignal
  \/ CallAssessLiveSignal
  \/ CallProcessWifiData
  \/ CallAssessBluetooth
  \/ CallBluetoothScanEndpoint
  \/ CallCalculateDistance

SpecFn == InitFn /\ [][NextFn]_vars

Init ==
  /\ InitServer
  /\ fin = [kind |-> "none"]
  /\ fout = NoResults

Next ==
  \/ BridgeWrite
  \/ StopSignal
  \/ \E h \in Handlers : HandlerScan(h)
  \/ \E h \in Handlers : HandlerCheck(h)
  \/ \E h \in Handlers : HandlerStart(h)
  \/ \E w \in Handlers : MonitorLoop(w)
  \/ \E w \in Handlers : MonitorGetmtime(w)
  \/ \E w \in Handlers : MonitorCompare(w)
  \/ \E w \in Handlers : MonitorRead(w)
  \/ \E w \in Handlers : MonitorEmit(w)
  \/ \E w \in Handlers : MonitorUpdate(w)

Spec == Init /\ [][Next]_vars

\* Thread w is scheduled again and again: time.sleep returns, a read makes
\* at most MAX_FILE_READ_ATTEMPTS passes, and no step waits for another
\* thread.  MonitorEmit(w) is enabled exactly at pc "emit" and leaves it, so
\* weak fairness of that step is that the thread is not at "emit" for ever.
MonitorFairness(w) ==
  /\ WF_vars(MonitorLoop(w))
  /\ WF_vars(MonitorGetmtime(w))
  /\ WF_vars(MonitorCompare(w))
  /\ WF_vars(MonitorRead(w))
  /\ []<>(mon[w].pc # "emit")
  /\ WF_vars(MonitorUpdate(w))

\* A request under way runs to its return.
HandlerFairness(h) == WF_vars(HandlerCheck(h) \/ HandlerStart(h))

\* The server with one client: one /score_signal request at a time and the
\* thread it starts.
NextOneClient ==
  \/ BridgeWrite
  \/ StopSignal
  \/ HandlerScan(1)
  \/ HandlerCheck(1)
  \/ HandlerStart(1)
  \/ MonitorLoop(1)
  \/ MonitorGetmtime(1)
  \/ MonitorCompare(1)
  \/ MonitorRead(1)
  \/ MonitorEmit(1)
  \/ MonitorUpdate(1)

OneClientSpec ==
  /\ Init
  /\ [][NextOneClient]_vars
  /\ MonitorFairness(1)
  /\ HandlerFairness(1)

(***************************************************************************)
(* Properties of the functions (checked under SpecFn).                     *)
(***************************************************************************)

\* The process_wifi_data call of the current state, when it was made on a
\* non-empty list.
WifiCalled == fout.process_wifi_data.called /\ Len(fin.nets) > 0

WifiResult == fout.process_wifi_data.value

\* C1: for a non-empty network list, when the scoring returns THREAT the
\* returned threat_tier is CRITICAL, and when it returns anything else
\* (BENIGN, PROCESSING_ERROR) the returned threat_tier is the heuristic tier
\* of the first record, one of LOW, MILD, HIGH.
C1_Reconciliation ==
  (WifiCalled /\ ~Raised(WifiResult)) =>
    LET T == WifiLocals(fin.nets[1]).threat_tier
    IN  /\ T \in {"LOW", "MILD", "HIGH"}
        /\ WifiResult.result \in {"THREAT", "BENIGN", "PROCESSING_ERROR"}
        /\ WifiResult.result = "THREAT" => WifiResult.threat_tier = "CRITICAL"
        /\ WifiResult.result # "THREAT" => WifiResult.threat_tier = T

\* A secure network (heuristic tier LOW) scored THREAT is reported CRITICAL,
\* reached together with the other tiers kept on BENIGN.
C1_Witness ==
  /\ WifiCalled
  /\ ~Raised(WifiResult)
  /\ WifiLocals(fin.nets[1]).threat_tier = "LOW"
  /\ WifiResult.result = "THREAT"
  /\ WifiResult.threat_tier = "CRITICAL"

\* C6: on both scoring paths, if an artifact failed to load or transform /
\* score raises, the call returns PROCESSING_ERROR with score 999.0 and does
\* not raise.
C6_ErrorResult ==
  LET failed == fin.failAt # 0 \/ fin.pipe.raises
      err    == [risk_level |-> "PROCESSING_ERROR", score |-> 99900]
  IN  /\ (fin.kind = "score" /\ fout.assess_signal.called /\ failed)
           => fout.assess_signal.value = err
      /\ (fin.kind = "score" /\ fout.assess_live_signal.called /\ failed)
           => fout.assess_live_signal.value = err

\* C7: with the artifacts loaded and no exception, both paths give THREAT
\* exactly when the score is below the one threshold, BENIGN otherwise, and
\* so the same risk_level for every score.
C7_SingleThreshold ==
  (/\ fin.kind = "score"
   /\ fin.failAt = 0 /\ ~fin.pipe.raises
   /\ fout.assess_signal.called /\ fout.assess_live_signal.called)
  => LET a == fout.assess_signal.value
         b == fout.assess_live_signal.value
     IN  /\ a.risk_level = (IF fin.pipe.score < THREAT_THRESHOLD THEN "THREAT" ELSE "BENIGN")
         /\ b.risk_level = a.risk_level

\* The table of C9 on the inputs of the model, written out by hand.
C9_SecureAuth == {"WPA2-Personal", "wpa3-sae"}

C9_PublicSsid == {"Free Airport WiFi", "CAFE_Guest"}

\* signal_percent * 10 of each 'Signal (%)' string; 70.0 where it does not parse
C9_SignalTenths ==
  ("80%" :> 800) @@ ("50%" :> 500) @@ ("90%" :> 900) @@ (" 75 % " :> 750) @@
  ("12.5%" :> 125) @@ ("n/a" :> 700)

C9_Expected(rec) ==
  LET secure == "Authentication" \in DOMAIN rec /\ rec["Authentication"] \in C9_SecureAuth
      public == ~secure /\ "SSID" \in DOMAIN rec /\ rec["SSID"] \in C9_PublicSsid
      sp     == IF "Signal (%)" \in DOMAIN rec THEN C9_SignalTenths[rec["Signal (%)"]] ELSE 700
      rssi   == -10000 + 7 * sp
  IN  IF secure THEN [features |-> <<rssi, 15, 10, 9, 0>>, tier |-> "LOW"]
      ELSE IF public THEN [features |-> <<rssi, 50, 30, 7, 0>>, tier |-> "MILD"]
      ELSE [features |-> <<rssi, 250, 150, 1, 1>>, tier |-> "HIGH"]

\* C9: for every non-empty list the feature vector and the pre-model tier
\* computed from the first record are the table's row for that record, and
\* the report returned carries that vector.
C9_FeatureTable ==
  WifiCalled =>
    LET rec == fin.nets[1]
        e   == C9_Expected(rec)
    IN  /\ raw_features_to_score(rec) = e.features
        /\ WifiLocals(rec).threat_tier = e.tier
        /\ ~Raised(WifiResult) => WifiResult.raw_features = e.features

\* 'Free Airport WiFi', open, 50%: [-65.0, 5.0, 30, 7, 0] and MILD.
C9_Witness ==
  /\ WifiCalled
  /\ ~Raised(WifiResult)
  /\ fin.nets[1] = [SSID |-> "Free Airport WiFi", Authentication |-> "Open"]
                     @@ ("Signal (%)" :> "50%")
  /\ WifiResult.raw_features = <<-6500, 50, 30, 7, 0>>
  /\ WifiResult.result = "BENIGN"
  /\ WifiResult.threat_tier = "MILD"

\* The names of the model by the keywords they hold, written out by hand.
C10_AudioVideoNames == {"Wireless Mic", "JBL Speaker", "BT Headset", "Microwave"}

C10_MicNames == {"Wireless Mic", "Microwave"}

C10_SnifferNames == {"SNIFFER-01"}

BtResult == fout.assess_bluetooth_threat.value

\* C10: with the class derived from the name, the status is that of the
\* first matching row of the tiering table, and is LOW, HIGH or CRITICAL.
C10_TieringTable ==
  (fin.kind = "bt" /\ fout.assess_bluetooth_threat.called) =>
    LET distance == calculate_distance(fin.rssi)
        av       == fin.name \in C10_AudioVideoNames
        mic      == fin.name \in C10_MicNames
        sniffer  == fin.name \in C10_SnifferNames
    IN  /\ BtResult.status \in {"LOW", "HIGH", "CRITICAL"}
        /\ BtResult.status =
             (IF distance < 500 /\ (av \/ sniffer \/ mic) THEN "CRITICAL"
              ELSE IF distance < 500 THEN "HIGH"
              ELSE IF distance < 3000 /\ (mic \/ av) THEN "HIGH"
              ELSE IF distance < 3000 THEN "LOW"
              ELSE "LOW")

\* 'Wireless Mic' at -40 dBm is CRITICAL.
C10_Witness ==
  /\ fin.kind = "bt"
  /\ fout.assess_bluetooth_threat.called
  /\ fin.name = "Wireless Mic"
  /\ fin.rssi = -40
  /\ BtResult.status = "CRITICAL"

ScanCalled == fin.kind = "btscan" /\ fout.bluetooth_scan_endpoint.called

ScanReport == fout.bluetooth_scan_endpoint.value.bluetooth

\* The device list of the stored scan; none where there is no scan, or no
\* 'devices' in it.
C11_Stored ==
  IF fin.bt_raw_data.isNone \/ "devices" \notin DOMAIN fin.bt_raw_data.data
  THEN <<>> ELSE fin.bt_raw_data.data["devices"]

\* The positions of the stored devices that have a distance_m of at most
\* 10.0 m.
C11_Near ==
  {i \in 1..Len(C11_Stored) :
     /\ "distance_m" \in DOMAIN C11_Stored[i]
     /\ C11_Stored[i]["distance_m"] <= 1000}

\* C11: the device list returned by /bluetooth_scan holds no device farther
\* than 10.0 m and no device without distance_m, holds every stored device
\* at 10.0 m or nearer (as many as are stored), and devices_detected is the
\* length of the list returned.
C11_ProximityFilter ==
  ScanCalled =>
    /\ \A k \in 1..Len(ScanReport.devices) :
         /\ "distance_m" \in DOMAIN ScanReport.devices[k]
         /\ ScanReport.devices[k]["distance_m"] <= 1000
    /\ \A i \in C11_Near :
         \E k \in 1..Len(ScanReport.devices) : ScanReport.devices[k] = C11_Stored[i]
    /\ Len(ScanReport.devices) = Cardinality(C11_Near)
    /\ ScanReport.devices_detected = Len(ScanReport.devices)

\* A scan with a device at exactly 10.0 m, one at 10.01 m and one without
\* distance_m: only the first is returned.
C11_Witness ==
  /\ ScanCalled
  /\ Len(C11_Stored) = 3
  /\ C11_Stored[1] = [status |-> "HIGH", distance_m |-> 1000]
  /\ C11_Stored[2] = [status |-> "CRITICAL", distance_m |-> 1001]
  /\ C11_Stored[3] = [status |-> "CRITICAL"]
  /\ ScanReport.devices = <<[status |-> "HIGH", distance_m |-> 1000]>>
  /\ ScanReport.devices_detected = 1

\* The statuses of the devices returned.
C12_Included == {ScanReport.devices[k]["status"] : k \in 1..Len(ScanReport.devices)}

\* C12: max_threat is CRITICAL when a returned device is CRITICAL, HIGH
\* when none is CRITICAL and one is HIGH, LOW otherwise (no device returned
\* and no stored scan included), in whatever order the devices are stored; a
\* device the filter removed does not count.
C12_MaxThreat ==
  ScanCalled =>
    ScanReport.max_threat =
      (IF "CRITICAL" \in C12_Included THEN "CRITICAL"
       ELSE IF "HIGH" \in C12_Included THEN "HIGH"
       ELSE "LOW")

\* HIGH, then CRITICAL, then HIGH again, all near: CRITICAL; reached
\* together with scans whose only CRITICAL device is beyond the limit.
C12_Witness ==
  /\ ScanCalled
  /\ Len(C11_Stored) = 3
  /\ C11_Stored[1] = [status |-> "HIGH", distance_m |-> 45]
  /\ C11_Stored[2] = [status |-> "CRITICAL", distance_m |-> 1000]
  /\ C11_Stored[3] = [status |-> "HIGH", distance_m |-> 45]
  /\ ScanReport.max_threat = "CRITICAL"

\* C13: calculate_distance returns for every reading, never a negative
\* distance; at the reference -59 dBm and above it returns 0.1 m; and below
\* the reference a lower reading gives a strictly larger distance.
C13_TotalMonotone ==
  (fin.kind = "distance" /\ fout.calculate_distance.called) =>
    LET r == fout.calculate_distance.value
    IN  /\ ~Raised(r)
        /\ r.distance >= 0
        /\ fin.rssi >= -59 => r.distance = 100
        /\ \A r2 \in RssiValues :
             (fin.rssi < r2 /\ r2 < -59) => r.distance > calculate_distance(r2)

(***************************************************************************)
(* Properties of the live server (checked under Spec).                     *)
(***************************************************************************)

\* The steps of thread w.
MonitorStep(w) == mon'[w] # mon[w] /\ mon[w].pc # "off"

\* C2: in a tick where the marker is newer than last_modified_time and the
\* payload fetched is None or empty, the tick writes nothing: up to and
\* including the fetch no step of the thread changes last_modified_time or
\* broadcasts; the fetch goes on to the emit only with a non-empty list, and
\* otherwise ends the tick with the change still to be seen by the next one
\* (the file's marker is still newer than last_modified_time, unless another
\* writer moved last_modified_time meanwhile).
C2_EmptyPayloadStep ==
  \A w \in Handlers :
    (MonitorStep(w) /\ mon[w].pc \in {"loop", "getmtime", "compare", "read"}) =>
      /\ last_modified_time' = last_modified_time
      /\ emitted' = emitted
      /\ last_report' = last_report
      /\ (mon[w].pc = "read" /\ mon'[w].pc = "emit") =>
            /\ ~mon'[w].full_network_list.isNone
            /\ Len(mon'[w].full_network_list.data) > 0
      /\ (mon[w].pc = "read" /\ mon'[w].pc # "emit") =>
            /\ mon'[w].pc = "loop"
            /\ mon'[w].empty
            /\ mon[w].current_modified_time > last_modified_time =>
                 file'.exists /\ file'.mtime > last_modified_time'

C2_MarkerKeptOnEmptyPayload == [][C2_EmptyPayloadStep]_vars

\* A tick has ended on an empty payload and the change is still pending.
C2_Witness ==
  \E w \in Handlers :
    /\ mon[w].pc = "loop"
    /\ mon[w].empty
    /\ file.exists
    /\ file.text \in {"[", "[]"}
    /\ file.mtime > last_modified_time

\* C3: at most one report is emitted per write of the source, and the
\* report emitted is computed from the payload of the write whose marker is
\* recorded.
C3_OncePerChange ==
  /\ \A m \in 1..MaxWrites : emitted[m] <= 1
  /\ \A w \in Handlers :
       mon[w].pc = "update" =>
         mon[w].full_network_list.src = mon[w].current_modified_time

\* C4: at most one thread runs check_for_file_updates.
C4_SingleMonitor == Cardinality({w \in Handlers : Alive(w)}) <= 1

\* C5: last_modified_time is written by the background loop only (line 193),
\* never by a request handler.
C5_MarkerStep ==
  last_modified_time' # last_modified_time =>
    \E w \in Handlers : mon[w].pc = "update" /\ mon'[w].pc = "loop"

C5_MarkerOwnedByLoop == [][C5_MarkerStep]_vars

C8_SentinelReport ==
  [result |-> "NO_NETWORKS_FOUND", score |-> 0,
   raw_features |-> <<-100, -10, -1, -1, -1>>, ssid |-> "N/A",
   networks |-> <<>>, threat_tier |-> "LOW", scored |-> FALSE]

\* process_wifi_data([]) whatever the state of the artifacts and pipeline
C8_EmptyList ==
  \A lf \in LoadFailures, pipe \in Pipes :
    process_wifi_data(<<>>, LoadArtifacts(lf[1], lf[2]), pipe) = C8_SentinelReport

C8_Response ==
  /\ C8_EmptyList
  /\ \A h \in Handlers :
       (req[h].pc = "check" /\ (req[h].wifi_raw.isNone \/ Len(req[h].wifi_raw.data) = 0))
         => req[h].wifi_processed = C8_SentinelReport

C8_ScanStep ==
  \A h \in Handlers :
    (/\ req[h].pc = "idle" /\ req'[h].pc = "check"
     /\ (~file.exists \/ file.text \in {"[", "[]"}))
      => req'[h].wifi_processed = C8_SentinelReport

\* C8: process_wifi_data on the empty list returns the sentinel report
\* without calling the scoring, and /score_signal answers with that report
\* whenever the scan file is absent, unreadable or holds an empty list.
C8_SentinelOnNoData == []C8_Response /\ [][C8_ScanStep]_vars

\* A handler has read an empty list from the file and holds the sentinel.
C8_Witness ==
  \E h \in Handlers :
    /\ req[h].pc = "check"
    /\ ~req[h].wifi_raw.isNone
    /\ Len(req[h].wifi_raw.data) = 0
    /\ req[h].wifi_processed.result = "NO_NETWORKS_FOUND"
    /\ req[h].wifi_processed.threat_tier = "LOW"

\* A step of thread w in which an exception reaches the except clauses: the
\* marker read that does not go on to the comparison, and the resolve / emit
\* that does not go on to the marker update.
C14_ErrorStep(w) ==
  /\ MonitorStep(w)
  /\ \/ mon[w].pc = "getmtime" /\ mon'[w].pc # "compare"
     \/ mon[w].pc = "emit" /\ mon'[w].pc # "update"

C14_TickStep ==
  \A w \in Handlers :
    \* a missing source and a payload that does not resolve are errors
    /\ (MonitorStep(w) /\ mon[w].pc = "getmtime" /\ ~file.exists) => C14_ErrorStep(w)
    /\ (MonitorStep(w) /\ mon[w].pc = "emit"
          /\ "SSID" \notin DOMAIN mon[w].full_network_list.data[1]) => C14_ErrorStep(w)
    \* an error ends the tick in the long wait, with nothing written
    /\ C14_ErrorStep(w) =>
          /\ mon'[w].pc = "loop"
          /\ mon'[w].delay = 5
          /\ last_modified_time' = last_modified_time
          /\ emitted' = emitted
          /\ last_report' = last_report
    \* after the wait the next tick runs, unless the stop signal is set
    /\ (MonitorStep(w) /\ mon[w].pc = "loop" /\ ~stop_event) => mon'[w].pc = "getmtime"
    \* the thread ends only at the loop test, with the stop signal set
    /\ (MonitorStep(w) /\ mon'[w].pc = "off") => (mon[w].pc = "loop" /\ stop_event)

\* C14: a tick in which the source is missing, or in which reading the
\* marker, resolving or emitting raises, broadcasts nothing more, leaves
\* last_modified_time as it is and ends in the 5 s wait, after which the next
\* tick runs; the loop is left only when the stop signal is set.
C14_NeverStopsOnError == [][C14_TickStep]_vars

\* A tick has failed on a payload that does not resolve (no SSID in the
\* first record): the thread waits 5 s, nothing was broadcast for the write
\* and the marker still shows it as new.
C14_Witness ==
  \E w \in Handlers :
    /\ mon[w].pc = "loop"
    /\ mon[w].delay = 5
    /\ ~stop_event
    /\ file.exists
    /\ file.mtime = 1
    /\ file.text = "[nossid]"
    /\ emitted[1] = 0
    /\ last_modified_time = 0

C17_WatcherStep ==
  \A w \in Handlers :
    \* the payload is fetched only for a marker strictly newer than the last
    /\ (MonitorStep(w) /\ mon'[w].pc = "read") =>
          mon'[w].current_modified_time > last_modified_time
    \* what goes to the broadcast is a non-empty list, of that marker or a
    \* later one
    /\ (MonitorStep(w) /\ mon'[w].pc = "emit") =>
          /\ ~mon'[w].full_network_list.isNone
          /\ Len(mon'[w].full_network_list.data) > 0
          /\ mon'[w].full_network_list.src >= mon'[w].current_modified_time
    \* a broadcast is made with such a list in hand
    /\ (emitted' # emitted \/ last_report' # last_report) =>
          \E v \in Handlers :
            /\ mon[v].pc = "emit" /\ mon'[v].pc = "update"
            /\ last_report' = process_wifi_data(mon[v].full_network_list.data, artifacts,
                                                pipeline)
            /\ last_report'.result # "NO_NETWORKS_FOUND"
            /\ last_report'.networks # <<>>
    \* the watcher writes the marker only after the broadcast of its tick
    /\ (MonitorStep(w) /\ last_modified_time' # last_modified_time) =>
          /\ mon[w].pc = "update"
          /\ emitted[mon[w].full_network_list.src] >= 1

\* C17: every report the watcher broadcasts is computed from a non-empty
\* list fetched for a marker strictly newer than last_modified_time; the
\* NO_NETWORKS_FOUND sentinel is never broadcast; and the watcher writes
\* last_modified_time only in a tick in which it has broadcast a report.
C17_BroadcastsRealData ==
  [](last_report.result # "NO_NETWORKS_FOUND") /\ [][C17_WatcherStep]_vars

\* The watcher has broadcast the report of the first write and recorded its
\* marker, after ticks on an absent file.
C17_Witness ==
  \E w \in Handlers :
    /\ mon[w].pc = "loop"
    /\ mon[w].delay = 1
    /\ emitted[1] = 1
    /\ last_report.result \in {"THREAT", "BENIGN"}
    /\ last_modified_time = 1
    /\ file.mtime = 1

\* The payload read of a tick makes at most MAX_FILE_READ_ATTEMPTS = 5
\* passes, whatever the file holds and whatever open/read do.
C15_ReadIsBounded ==
  \A fails \in IoFails, last \in IoLast :
    get_latest_data(file, fails, last).passes <= 5

\* The steps a thread at pc is away from its exit once the stop signal is
\* set.
C15_StepsToExit ==
  [off |-> 0, loop |-> 1, update |-> 2, emit |-> 3, read |-> 4, compare |-> 5,
   getmtime |-> 6]

\* With the stop signal set, the loop test ends the thread, and every other
\* step of the thread brings it nearer to that test.
C15_StopStep ==
  \A w \in Handlers :
    (MonitorStep(w) /\ stop_event) =>
      /\ mon[w].pc = "loop" => mon'[w].pc = "off"
      /\ C15_StepsToExit[mon'[w].pc] < C15_StepsToExit[mon[w].pc]

\* C15: once the stop signal is set the watcher loop exits after the tick
\* under way at most (each of its steps is finite and one nearer to the
\* exit; the payload read makes at most 5 passes; the signal is tested
\* before each tick), and at most one report is broadcast after the stop.
C15_StopsAfterOneReport ==
  /\ [](emitted_after_stop <= 1)
  /\ []C15_ReadIsBounded
  /\ [][C15_StopStep]_vars

\* Handler h has read a payload for its response (lines 216-217) and is
\* about to look for the watcher (line 222), and the source now holds the
\* non-empty payload of write m, made after the one it read.
C16_Rewritten(h, m) ==
  /\ req[h].pc = "check"
  /\ ~req[h].wifi_raw.isNone
  /\ req[h].wifi_raw.src < m
  /\ file.exists /\ file.mtime = m /\ file.text = "[home]"

\* C16: a non-empty payload written after the endpoint's read and before
\* the watcher is started is eventually broadcast by the watcher, also when
\* the write comes before line 225 and the source is not written again.
\* The server is left running (no stop signal) and no tick fails with an
\* exception (no 5 s wait).
C16_NoLostChange ==
  \A h \in Handlers, m \in 1..MaxWrites :
    C16_Rewritten(h, m) ~>
      \/ emitted[m] >= 1
      \/ file.mtime > m
      \/ stop_event
      \/ \E w \in Handlers : mon[w].delay = 5

====
